---- MODULE Spec2Model ----
(***************************************************************************)
(* Model of js/language.js: the LanguageManager class (language detection, *)
(* translation loading, key lookup, interpolation, DOM application and     *)
(* language switching).                                                    *)
(*                                                                         *)
(* JavaScript strings are modelled as sequences of one-character tokens so *)
(* that split, regular-expression matching and replacement are computed,   *)
(* not assumed.  Language codes and stored values are TLA+ strings; Str    *)
(* joins a token sequence into such a string.                              *)
(***************************************************************************)
EXTENDS Integers, Sequences, FiniteSets, TLC

VARIABLES
    hash,             \* window.location.hash, a token sequence
    search,           \* window.location.search, a sequence of <<name, value>> pairs
    storage,          \* localStorage['preferred-language'] (Null when absent)
    pathname,         \* window.location.pathname, a token sequence
    language,         \* navigator.language, a token sequence
    currentLanguage,  \* this.currentLanguage
    translations,     \* this.translations
    docLang,          \* document.documentElement.lang
    selector,         \* value of the language <select> elements
    dom,              \* the marked elements of the document
    procs,            \* the async calls of init / switchLanguage, in call order
    overlap,          \* history: a load was issued while another was pending
    applied,          \* history: <<process, code>> of each response assigned to this.translations
    nCalls,           \* history: number of switchLanguage calls made
    lastArg,          \* history: argument of the latest switchLanguage call
    effects,          \* history: counters of fetches, DOM scans, storage writes, pushState calls
    args,             \* inputs of the pure function under check
    ret,              \* its result
    phase             \* "start" before the call, "called" after it

envVars == <<hash, search, storage, pathname, language>>
engineVars == <<currentLanguage, translations, docLang, selector, dom>>
histVars == <<procs, overlap, applied, nCalls, lastArg, effects>>
callVars == <<args, ret, phase>>
vars == <<envVars, engineVars, histVars, callVars>>

Null == "<null>"

(***************************************************************************)
(* String helpers                                                          *)
(***************************************************************************)
Min(S) == CHOOSE x \in S : \A y \in S : x <= y

RECURSIVE Str(_)
Str(s) == IF s = <<>> THEN "" ELSE Head(s) \o Str(Tail(s))

\* String.prototype.split(sep) for a one-character separator
RECURSIVE Split(_, _)
Split(s, sep) ==
    LET I == {i \in 1..Len(s) : s[i] = sep}
    IN  IF I = {} THEN <<s>>
        ELSE <<SubSeq(s, 1, Min(I) - 1)>> \o Split(SubSeq(s, Min(I) + 1, Len(s)), sep)

\* Array.prototype.filter(segment => segment) on an array of strings
RECURSIVE FilterNonEmpty(_)
FilterNonEmpty(a) ==
    IF a = <<>> THEN <<>>
    ELSE IF Head(a) # <<>> THEN <<Head(a)>> \o FilterNonEmpty(Tail(a))
    ELSE FilterNonEmpty(Tail(a))

\* JavaScript truthiness of a string-or-null value
Truthy(v) == v # Null /\ v # ""

(***************************************************************************)
(* detectLanguage                                                          *)
(***************************************************************************)
Supported == {"en", "es"}

\* the tokens that [a-z] matches
LowerCase == {"e", "n", "s", "f", "r", "x"}

\* /[#&]lang=([a-z]{2})/ matches at position i ("lang=" is one token)
HashMatchAt(h, i) ==
    /\ i + 3 <= Len(h)
    /\ h[i] \in {"#", "&"}
    /\ h[i + 1] = "lang="
    /\ h[i + 2] \in LowerCase
    /\ h[i + 3] \in LowerCase

\* hash.match(...)[1]: the capture of the leftmost match, Null when none
hashMatch(h) ==
    LET I == {i \in 1..Len(h) : HashMatchAt(h, i)}
    IN  IF I = {} THEN Null ELSE h[Min(I) + 2] \o h[Min(I) + 3]

\* URLSearchParams.get(name): the value of the first pair named name
searchGet(q, name) ==
    LET I == {i \in 1..Len(q) : q[i][1] = name}
    IN  IF I = {} THEN Null ELSE q[Min(I)][2]

detectLanguage(h, q, st, p, l) ==
    LET langParam == searchGet(q, "lang")
        pathSegments == FilterNonEmpty(Split(p, "/"))
        browserLang == Str(Split(l, "-")[1])
    IN  IF hashMatch(h) # Null /\ hashMatch(h) \in Supported THEN hashMatch(h)
        ELSE IF Truthy(langParam) /\ langParam \in Supported THEN langParam
        ELSE IF Truthy(st) /\ st \in Supported THEN st
        ELSE IF Len(pathSegments) > 0 /\ Str(pathSegments[1]) \in Supported
             THEN Str(pathSegments[1])
        ELSE IF browserLang \in Supported THEN browserLang ELSE "en"

(***************************************************************************)
(* Translation tables: a JSON value is a string leaf, an object (a function *)
(* from property names to values) or anything else (null, number, boolean). *)
(***************************************************************************)
Leaf(s) == [k |-> "str", s |-> s]
Obj(m) == [k |-> "obj", m |-> m]
Other == [k |-> "other"]
EmptyTable == Obj(<<>>)

\* fallback || key on strings
OrElse(a, b) == IF a # <<>> THEN a ELSE b

\* the loop of text(): value is the table reached so far, keys the segments left.
\* Inherited properties (k in value is true for "constructor") lead to functions,
\* which are no strings and no objects: the result is that of an absent segment.
RECURSIVE Walk(_, _, _, _)
Walk(value, keys, key, fallback) ==
    IF keys = <<>>
    THEN IF value.k = "str" THEN value.s ELSE OrElse(fallback, key)
    ELSE IF value.k = "obj" /\ Head(keys) \in DOMAIN value.m
         THEN Walk(value.m[Head(keys)], Tail(keys), key, fallback)
         ELSE OrElse(fallback, key)

RECURSIVE WalkTruthyLeaf(_, _, _, _)
WalkTruthyLeaf(value, keys, key, fallback) ==
    IF keys = <<>>
    THEN IF value.k = "str" /\ value.s # <<>> THEN value.s ELSE OrElse(fallback, key)
    ELSE IF value.k = "obj" /\ Head(keys) \in DOMAIN value.m
         THEN WalkTruthyLeaf(value.m[Head(keys)], Tail(keys), key, fallback)
         ELSE OrElse(fallback, key)

TextTruthyLeaf(tr, key, fallback) ==
    IF key = <<>> THEN fallback ELSE WalkTruthyLeaf(tr, Split(key, "."), key, fallback)

\* text(key, fallback) on the table tr; key is a string
text(tr, key, fallback) ==
    IF key = <<>> THEN fallback ELSE Walk(tr, Split(key, "."), key, fallback)

(***************************************************************************)
(* textWithVars                                                            *)
(***************************************************************************)
\* s has pat at position i
OccursAt(s, pat, i) == i + Len(pat) - 1 <= Len(s) /\ SubSeq(s, i, i + Len(pat) - 1) = pat

\* GetSubstitution of String.prototype.replace for a pattern without groups:
\* "$$" is "$", "$&" is the matched text, every other character is itself
\* ("$1" stays literal when the pattern has no group).
RECURSIVE Expand(_, _)
Expand(repl, matched) ==
    IF repl = <<>> THEN <<>>
    ELSE IF Len(repl) >= 2 /\ repl[1] = "$" /\ repl[2] = "$"
         THEN <<"$">> \o Expand(SubSeq(repl, 3, Len(repl)), matched)
    ELSE IF Len(repl) >= 2 /\ repl[1] = "$" /\ repl[2] = "&"
         THEN matched \o Expand(SubSeq(repl, 3, Len(repl)), matched)
    ELSE <<Head(repl)>> \o Expand(Tail(repl), matched)

\* text.replace(new RegExp(pat, 'g'), repl) for a pattern of literal characters
RECURSIVE ReplaceGlobal(_, _, _)
ReplaceGlobal(s, pat, repl) ==
    LET I == {i \in 1..Len(s) : OccursAt(s, pat, i)}
    IN  IF I = {} THEN s
        ELSE SubSeq(s, 1, Min(I) - 1) \o Expand(repl, pat)
             \o ReplaceGlobal(SubSeq(s, Min(I) + Len(pat), Len(s)), pat, repl)

\* the source of the regular expression `{{${varName}}}`; varName is made of
\* letters, for which the pattern matches exactly the text "{{varName}}"
Placeholder(varName) == <<"{", "{">> \o varName \o <<"}", "}">>

\* Object.keys(variables).forEach(...): variables is the list of entries in key order
RECURSIVE Interpolate(_, _)
Interpolate(t, variables) ==
    IF variables = <<>> THEN t
    ELSE Interpolate(ReplaceGlobal(t, Placeholder(Head(variables).name), Head(variables).value),
                     Tail(variables))

textWithVars(tr, key, variables, fallback) == Interpolate(text(tr, key, fallback), variables)

(***************************************************************************)
(* The document: the marked elements, each a record of its attributes      *)
(* (data-translate, data-translate-fallback, data-translate-html,          *)
(* data-translate-template, data-var-*, data-translate-inline,             *)
(* data-original-content), its placeholder and its content (innerHTML).    *)
(***************************************************************************)
\* getAttribute() of an attribute the element does not have
NoAttr == <<"<null>">>

\* s.includes(pat)
Includes(s, pat) == \E i \in 1..Len(s) : OccursAt(s, pat, i)

\* /\{\{([^}]+)\}\}/ matches at position i of s: "{{", a non-empty run of
\* characters other than "}", and "}}" right after the run
MarkerClose(s, i) == Min({j \in (i + 3)..Len(s) : s[j] = "}"})
MarkerAt(s, i) ==
    /\ i + 4 <= Len(s)
    /\ s[i] = "{" /\ s[i + 1] = "{" /\ s[i + 2] # "}"
    /\ \E j \in (i + 3)..Len(s) : s[j] = "}"
    /\ MarkerClose(s, i) + 1 <= Len(s)
    /\ s[MarkerClose(s, i) + 1] = "}"

\* originalContent.replace(markerRegex, (match, key) => this.text(key, match))
RECURSIVE ReplaceMarkers(_, _)
ReplaceMarkers(tr, s) ==
    LET I == {i \in 1..Len(s) : MarkerAt(s, i)}
    IN  IF I = {} THEN s
        ELSE LET i == Min(I)
                 j == MarkerClose(s, i)
             IN  SubSeq(s, 1, i - 1)
                 \o text(tr, SubSeq(s, i + 2, j - 1), SubSeq(s, i, j + 1))
                 \o ReplaceMarkers(tr, SubSeq(s, j + 2, Len(s)))

InlineFromLiveContent(tr, e) ==
    IF ~e.inline THEN e
    ELSE IF Includes(e.content, <<"{", "{">>) /\ Includes(e.content, <<"}", "}">>)
         THEN [e EXCEPT !.original = e.content, !.content = ReplaceMarkers(tr, e.content),
                        !.setBy = "innerHTML"]
         ELSE [e EXCEPT !.original = e.content]

\* the body of translateInlineMarkers for one element
TranslateInline(tr, e) ==
    IF ~e.inline THEN e
    ELSE LET stored == e.original
             originalContent == IF stored = NoAttr \/ stored = <<>> THEN e.content ELSE stored
             hasMarkers == Includes(originalContent, <<"{", "{">>)
                           /\ Includes(originalContent, <<"}", "}">>)
         IN  IF hasMarkers
             THEN [e EXCEPT !.original = originalContent,
                            !.content = ReplaceMarkers(tr, originalContent),
                            !.setBy = "innerHTML"]
             ELSE [e EXCEPT !.original = originalContent]

translateInlineMarkers(tr, d) == [i \in DOMAIN d |-> TranslateInline(tr, d[i])]

\* Method 1 of autoTranslateElements for one element
TranslateData(tr, e) ==
    IF e.translate = NoAttr THEN e
    ELSE LET fallback == IF e.fallback = NoAttr THEN <<>> ELSE e.fallback
             t == text(tr, e.translate, fallback)
         IN  IF e.textInput THEN [e EXCEPT !.placeholder = t, !.setBy = "placeholder"]
             ELSE IF e.html THEN [e EXCEPT !.content = t, !.setBy = "innerHTML"]
             ELSE [e EXCEPT !.content = t, !.setBy = "textContent"]

\* Method 2 of autoTranslateElements for one element (parseTemplateVariables
\* reads the data-var-* attributes in attribute order)
TranslateTemplate(tr, e) ==
    IF e.template = NoAttr THEN e
    ELSE [e EXCEPT !.content = textWithVars(tr, e.template, e.variables, <<>>),
                   !.setBy = IF e.html THEN "innerHTML" ELSE "textContent"]

\* Elements nested in an element's content.  The content (innerHTML) is the
\* element's markup; a nested element is its start tag, its text and its end
\* tag, each tag one token.  Two nested elements occur: a span with
\* data-translate="a" and a span with data-translate-template="b.a" and
\* data-var-n="S".
KeyTag == "<span data-translate=a>"
TemplateTag == "<span data-translate-template=b.a data-var-n=S>"
EndTag == "</span>"

\* what Method 1 (KeyTag) or Method 2 (TemplateTag) writes into the nested element
ChildText(tr, tag) ==
    IF tag = KeyTag THEN text(tr, <<"a">>, <<>>)
    ELSE textWithVars(tr, <<"b", ".", "a">>, <<[name |-> <<"n">>, value |-> <<"S">>]>>, <<>>)

\* the content s after element.textContent = ... on each nested element with
\* the start tag `tag` (querySelectorAll matches the nested elements too)
RECURSIVE WriteNested(_, _, _)
WriteNested(tr, s, tag) ==
    IF s = <<>> THEN <<>>
    ELSE IF Head(s) = tag /\ \E j \in 2..Len(s) : s[j] = EndTag
         THEN LET j == Min({k \in 2..Len(s) : s[k] = EndTag})
              IN  <<tag>> \o ChildText(tr, tag) \o <<EndTag>>
                  \o WriteNested(tr, SubSeq(s, j + 1, Len(s)), tag)
         ELSE <<Head(s)>> \o WriteNested(tr, Tail(s), tag)

\* Method 1 for an element and the elements nested in it: assigning the
\* element's own content removes the elements that were nested in it
DataPass(tr, e) ==
    IF e.translate # NoAttr /\ ~e.textInput THEN TranslateData(tr, e)
    ELSE [TranslateData(tr, e) EXCEPT !.content = WriteNested(tr, e.content, KeyTag)]

\* Method 2 for an element and the elements nested in it
TemplatePass(tr, e) ==
    IF e.template # NoAttr THEN TranslateTemplate(tr, e)
    ELSE [e EXCEPT !.content = WriteNested(tr, e.content, TemplateTag)]

\* autoTranslateElements: the three methods, each over the whole document
autoTranslateElements(tr, d) ==
    translateInlineMarkers(tr,
        [i \in DOMAIN d |-> TemplatePass(tr,
            [j \in DOMAIN d |-> DataPass(tr, d[j])][i])])

\* an element as the page's markup gives it; setBy records the property the
\* script last assigned ("placeholder", "innerHTML", "textContent")
Element(translate, fallback, html, textInput, template, variables, inline, content) ==
    [translate |-> translate, fallback |-> fallback, html |-> html,
     textInput |-> textInput, template |-> template, variables |-> variables,
     inline |-> inline, original |-> NoAttr, placeholder |-> <<>>,
     content |-> content, setBy |-> "none"]

\* translateElement(selector, key, fallback, useHTML) on the document d:
\* cssSelector stands for the index of the element document.querySelector finds,
\* an index outside the document for a selector that matches nothing
translateElement(tr, d, cssSelector, key, fallback, useHTML) ==
    IF cssSelector \notin DOMAIN d THEN d
    ELSE [d EXCEPT ![cssSelector] = [@ EXCEPT !.content = text(tr, key, fallback),
                                           !.setBy = IF useHTML THEN "innerHTML"
                                                     ELSE "textContent"]]

\* translateElements(elements): translateElement for each entry in order
RECURSIVE translateElements(_, _, _)
translateElements(tr, d, elements) ==
    IF elements = <<>> THEN d
    ELSE translateElements(tr,
             translateElement(tr, d, Head(elements).selector, Head(elements).key,
                              Head(elements).fallback, Head(elements).useHTML),
             Tail(elements))

(***************************************************************************)
(* Bounds and input sets                                                   *)
(***************************************************************************)
MaxHashParams == 2
MaxKeyLen == 4
MaxChunks == 3
MaxSwitches == 2
MaxPieces == 2

\* sequences over S of length at most n
SeqsUpTo(S, n) == UNION {[1..k -> S] : k \in 0..n}

\* the concatenation of the members of a sequence of strings
RECURSIVE Concat(_)
Concat(ss) == IF ss = <<>> THEN <<>> ELSE Head(ss) \o Concat(Tail(ss))

\* the members of a sequence of strings joined by sep
RECURSIVE Join(_, _)
Join(ss, sep) ==
    IF ss = <<>> THEN <<>>
    ELSE IF Len(ss) = 1 THEN ss[1]
    ELSE ss[1] \o <<sep>> \o Join(Tail(ss), sep)

\* values that the variables a specification does not use keep
IdleEnv ==
    /\ hash = <<>> /\ search = <<>> /\ storage = Null
    /\ pathname = <<"/">> /\ language = <<"e", "n">>
IdleEngine ==
    /\ currentLanguage = "en" /\ translations = EmptyTable
    /\ docLang = "" /\ selector = "" /\ dom = <<>>
IdleHist ==
    /\ procs = <<>> /\ overlap = FALSE /\ applied = <<>>
    /\ nCalls = 0 /\ lastArg = Null
    /\ effects = [fetch |-> 0, scan |-> 0, store |-> 0, push |-> 0]

(***************************************************************************)
(* SpecResolve: detectLanguage over bounded environments                   *)
(***************************************************************************)
HashParams ==
    { <<"lang=", "e", "s">>, <<"lang=", "e", "n">>, <<"lang=", "f", "r">>,
      <<"lang=", "e", "s", "x">>, <<"lang=", "e">>, <<"lang=", "E", "S">>,
      <<"x">>, <<"x", "lang=", "e", "s">> }
Hashes == {<<>>} \cup {<<"#">> \o Join(ps, "&") : ps \in SeqsUpTo(HashParams, MaxHashParams)}
Searches ==
    { <<>>, << <<"lang", "es">> >>, << <<"lang", "en">> >>, << <<"lang", "fr">> >>,
      << <<"lang", "">> >>, << <<"lang", "esx">> >>, << <<"x", "es">> >>,
      << <<"lang", "fr">>, <<"lang", "es">> >>, << <<"x", "1">>, <<"lang", "en">> >> }
Storages == {Null, "", "en", "es", "fr"}
Pathnames ==
    { <<"/">>, <<"/", "e", "s", "/">>, <<"/", "e", "n", "/", "x">>, <<"/", "/", "e", "s">>,
      <<"/", "f", "r", "/", "e", "s">>, <<"/", "e", "s", "x">> }
Languages ==
    { <<"e", "n">>, <<"e", "s">>, <<"e", "s", "-", "M", "X">>, <<"e", "n", "-", "U", "S">>,
      <<"f", "r">>, <<"f", "r", "-", "e", "s">> }

InitResolve ==
    /\ hash \in Hashes /\ search \in Searches /\ storage \in Storages
    /\ pathname \in Pathnames /\ language \in Languages
    /\ IdleEngine /\ IdleHist
    /\ args = <<>> /\ ret = Null /\ phase = "start"

Resolve ==
    /\ phase = "start"
    /\ ret' = detectLanguage(hash, search, storage, pathname, language)
    /\ phase' = "called"
    /\ UNCHANGED <<envVars, engineVars, histVars, args>>

NextResolve == Resolve
SpecResolve == InitResolve /\ [][NextResolve]_vars

\* The value each source holds, read the way the `lang` query parameter is
\* read: the fragment's value is the whole value of its first lang=<code>
\* parameter.
FragmentValue(h) ==
    LET ps == IF h = <<>> THEN <<>> ELSE Split(Tail(h), "&")
        I == {i \in 1..Len(ps) : ps[i] # <<>> /\ ps[i][1] = "lang="}
    IN  IF I = {} THEN Null ELSE Str(Tail(ps[Min(I)]))
PathValue(p) ==
    LET segs == FilterNonEmpty(Split(p, "/"))
    IN  IF segs = <<>> THEN Null ELSE Str(segs[1])
LocaleValue(l) == Str(Split(l, "-")[1])
SourceValues ==
    <<FragmentValue(hash), searchGet(search, "lang"), storage,
      PathValue(pathname), LocaleValue(language)>>
Decides(vals, i) == vals[i] \in Supported /\ \A j \in 1..(i - 1) : vals[j] \notin Supported

\* C1: resolve returns the value of the highest-priority source (fragment,
\* query parameter, persisted preference, first path segment, browser-locale
\* primary subtag) whose value is a supported code.
C1_PriorityOrder ==
    phase = "called" => \A i \in 1..5 : Decides(SourceValues, i) => ret = SourceValues[i]

\* C2: resolve returns a supported code; the default en when no source holds
\* a supported code; and c when the query parameter is the only source
\* holding a supported code c.
C2_TotalAndClosed ==
    phase = "called" =>
        /\ ret \in Supported
        /\ (\A i \in 1..5 : SourceValues[i] \notin Supported) => ret = "en"
        /\ (SourceValues[2] \in Supported
            /\ \A i \in {1, 3, 4, 5} : SourceValues[i] \notin Supported)
           => ret = SourceValues[2]

\* The same two statements hold once the fragment's value is taken to be what
\* the regular expression captures: the two lower-case letters after the
\* first "#lang=" or "&lang=" that has two.
CapturedValues ==
    <<hashMatch(hash), searchGet(search, "lang"), storage,
      PathValue(pathname), LocaleValue(language)>>
PriorityOrderOfCaptured ==
    phase = "called" =>
        /\ ret \in Supported
        /\ \A i \in 1..5 : Decides(CapturedValues, i) => ret = CapturedValues[i]
        /\ (\A i \in 1..5 : CapturedValues[i] \notin Supported) => ret = "en"

(***************************************************************************)
(* SpecText: text(key, fallback) over bounded tables, keys and fallbacks   *)
(***************************************************************************)
\* property names of the translation documents (non-empty identifiers)
Names == {<<"a">>, <<"b">>}
Leaves == {Leaf(<<"X">>), Leaf(<<>>), Other}
ObjectsOver(N) == {Obj(m) : m \in UNION {[D -> N] : D \in SUBSET Names}}
Nodes1 == Leaves \cup ObjectsOver(Leaves)
\* what response.json() may yield: any JSON value, nested two levels deep
Tables == Leaves \cup ObjectsOver(Nodes1)
Keys == SeqsUpTo({"a", "b", "."}, MaxKeyLen)
Fallbacks == {<<>>, <<"F">>}

InitText ==
    /\ IdleEnv /\ IdleEngine /\ IdleHist
    /\ args \in [table : Tables, key : Keys, fallback : Fallbacks]
    /\ ret = <<>> /\ phase = "start"

CallText ==
    /\ phase = "start"
    /\ ret' = text(args.table, args.key, args.fallback)
    /\ phase' = "called"
    /\ UNCHANGED <<envVars, engineVars, histVars, args>>

NextText == CallText
SpecText == InitText /\ [][NextText]_vars

\* the string leaves of a table, each with the path of property names to it
RECURSIVE LeafPaths(_)
LeafPaths(node) ==
    IF node.k = "str" THEN {<< <<>>, node.s >>}
    ELSE IF node.k = "obj"
         THEN UNION {{<< <<d>> \o pl[1], pl[2] >> : pl \in LeafPaths(node.m[d])} : d \in DOMAIN node.m}
         ELSE {}
LeafAt(tr, path) == {pl[2] : pl \in {q \in LeafPaths(tr) : q[1] = path}}

\* C3: lookup returns the leaf string when the key's dot-separated segments
\* lead to a string leaf, and otherwise the fallback if one was given (a
\* non-empty one) and else the raw key.
C3_LookupLeafOrFallback ==
    phase = "called" =>
        LET leaf == LeafAt(args.table, Split(args.key, "."))
        IN  IF leaf # {} THEN leaf = {ret}
            ELSE ret = IF args.fallback # <<>> THEN args.fallback ELSE args.key

\* a lookup that walked two segments to a string leaf
C3_Witness ==
    /\ phase = "called"
    /\ args.key = <<"a", ".", "b">>
    /\ args.table = Obj([d \in {<<"a">>} |-> Obj([e \in {<<"b">>} |-> Leaf(<<"X">>)])])
    /\ ret = <<"X">>

(***************************************************************************)
(* SpecVars: textWithVars(key, variables, fallback)                        *)
(***************************************************************************)
TextChunks == {<<"{", "{", "n", "}", "}">>, <<"{", "{", "m", "}", "}">>, <<"H">>, <<"{">>}
Texts == {Concat(cs) : cs \in SeqsUpTo(TextChunks, MaxChunks)}
VarNames == {<<"n">>, <<"m">>}
VarValues == {<<"S">>, <<>>, <<"$", "$">>, <<"$", "&">>, <<"{", "{", "m", "}", "}">>}
\* objects with distinct property names, as the list of their entries in key order
VarLists ==
    {vs \in SeqsUpTo([name : VarNames, value : VarValues], 2) :
        \A i, j \in 1..Len(vs) : i # j => vs[i].name # vs[j].name}

InitVars ==
    /\ IdleEnv /\ IdleEngine /\ IdleHist
    /\ args \in [table : {Obj([d \in {<<"a">>} |-> Leaf(t)]) : t \in Texts},
                 key : {<<"a">>, <<"b">>}, variables : VarLists, fallback : Fallbacks]
    /\ ret = <<>> /\ phase = "start"

CallTextWithVars ==
    /\ phase = "start"
    /\ ret' = textWithVars(args.table, args.key, args.variables, args.fallback)
    /\ phase' = "called"
    /\ UNCHANGED <<envVars, engineVars, histVars, args>>

NextVars == CallTextWithVars
SpecVars == InitVars /\ [][NextVars]_vars

\* t with every {{name}} of a supplied name replaced by that name's value,
\* everything else verbatim
RECURSIVE Substituted(_, _)
Substituted(t, variables) ==
    IF t = <<>> THEN <<>>
    ELSE LET I == {i \in 1..Len(variables) : OccursAt(t, Placeholder(variables[i].name), 1)}
         IN  IF I = {} THEN <<Head(t)>> \o Substituted(Tail(t), variables)
             ELSE variables[Min(I)].value
                  \o Substituted(SubSeq(t, Len(Placeholder(variables[Min(I)].name)) + 1, Len(t)),
                                 variables)
NamesPlaceholder(t, variables) ==
    \E i \in 1..Len(variables) : Includes(t, Placeholder(variables[i].name))

\* C4: interpolate returns the lookup result with every {{name}} replaced by
\* variables[name] for each supplied name, the other placeholders verbatim;
\* without a placeholder naming a supplied variable it is the lookup result.
C4_InterpolateReplacesAll ==
    phase = "called" =>
        LET looked == text(args.table, args.key, args.fallback)
        IN  /\ ret = Substituted(looked, args.variables)
            /\ ~NamesPlaceholder(looked, args.variables) => ret = looked

\* What does hold: the statement for values that hold neither "$" nor a brace.
PlainValues(variables) ==
    \A i \in 1..Len(variables) : \A k \in 1..Len(variables[i].value) :
        variables[i].value[k] \notin {"$", "{", "}"}
InterpolatePlainValues ==
    (phase = "called" /\ PlainValues(args.variables)) =>
        LET looked == text(args.table, args.key, args.fallback)
        IN  /\ ret = Substituted(looked, args.variables)
            /\ ~NamesPlaceholder(looked, args.variables) => ret = looked

(***************************************************************************)
(* SpecInline: translateInlineMarkers on one flagged element, interleaved  *)
(* with changes of the table.  args is the markup the element held at its  *)
(* first scan, ret tells whether a scan followed a table change.           *)
(***************************************************************************)
MarkupChunks ==
    { <<"{", "{", "a", "}", "}">>, <<"{", "{", "b", ".", "a", "}", "}">>,
      <<"{", "{", "z", "}", "}">>, <<"H">>, <<"{">>, <<"}", "}">> }
Markups == {Concat(cs) : cs \in SeqsUpTo(MarkupChunks, MaxChunks)}
InlineTables ==
    { EmptyTable,
      Obj([d \in Names |-> IF d = <<"a">> THEN Leaf(<<"E">>)
                           ELSE Obj([e \in {<<"a">>} |-> Leaf(<<"N">>)])]),
      Obj([d \in Names |-> IF d = <<"a">> THEN Leaf(<<"{", "{", "b", ".", "a", "}", "}">>)
                           ELSE Obj([e \in {<<"a">>} |-> Leaf(<<"S">>)])]),
      Obj([d \in {<<"a">>} |-> Leaf(<<>>)]) }

InitInline ==
    /\ IdleEnv /\ IdleHist
    /\ currentLanguage = "en" /\ docLang = "" /\ selector = ""
    /\ translations \in InlineTables
    /\ dom \in {<<Element(NoAttr, NoAttr, FALSE, FALSE, NoAttr, <<>>, TRUE, c)>> : c \in Markups}
    /\ args = NoAttr /\ ret = "none" /\ phase = "start"

Scan ==
    /\ dom' = translateInlineMarkers(translations, dom)
    /\ args' = IF phase = "start" THEN dom[1].content ELSE args
    /\ ret' = IF phase = "start" THEN "once" ELSE IF phase = "changed" THEN "again" ELSE ret
    /\ phase' = "scanned"
    /\ UNCHANGED <<envVars, histVars, currentLanguage, translations, docLang, selector>>

ChangeTable ==
    /\ \E t \in InlineTables : t # translations /\ translations' = t
    /\ phase' = IF phase = "start" THEN "start" ELSE "changed"
    /\ UNCHANGED <<envVars, histVars, currentLanguage, docLang, selector, dom, args, ret>>

NextInline == Scan \/ ChangeTable
SpecInline == InitInline /\ [][NextInline]_vars

\* s with every {{key}} marker whose key leads to a string leaf of tr replaced
\* by that leaf, the other markers and all other text verbatim
RECURSIVE MarkersResolved(_, _)
MarkersResolved(s, tr) ==
    IF s = <<>> THEN <<>>
    ELSE IF MarkerAt(s, 1)
         THEN LET j == MarkerClose(s, 1)
                  leaf == LeafAt(tr, Split(SubSeq(s, 3, j - 1), "."))
              IN  (IF leaf # {} THEN CHOOSE x \in leaf : TRUE ELSE SubSeq(s, 1, j + 1))
                  \o MarkersResolved(SubSeq(s, j + 2, Len(s)), tr)
         ELSE <<Head(s)>> \o MarkersResolved(Tail(s), tr)

\* C9: after a scan the element's content is the markup captured at its first
\* scan with every marker replaced by its lookup in the current table and
\* unmatched markers left literal; the cached original is that first markup
\* from then on; a second scan under the same table changes nothing.
C9_InlineFromOriginal ==
    /\ [](phase = "scanned" => dom[1].content = MarkersResolved(args, translations))
    /\ [](phase # "start" => dom[1].original = args)
    /\ [][(phase = "scanned" /\ phase' = "scanned") => dom' = dom]_vars

\* a scan after a table change, of markup with a matched and an unmatched
\* marker, under a table whose text for the matched marker is itself a marker
C9_Witness ==
    /\ phase = "scanned" /\ ret = "again"
    /\ args = <<"{", "{", "a", "}", "}", "{", "{", "z", "}", "}">>
    /\ dom[1].content = <<"{", "{", "b", ".", "a", "}", "}", "{", "{", "z", "}", "}">>

(***************************************************************************)
(* Spec: the engine.  Init is the state the constructor leaves: the        *)
(* language detected, the table empty, init() suspended at its fetch.      *)
(* Every async call (init, each switchLanguage that passes its guard) is a *)
(* process; its pc names the await it is suspended at.  One action is one  *)
(* run of the event loop: a call up to its first await, or the settling of *)
(* a promise and everything that follows it up to the next await.          *)
(***************************************************************************)
\* the translation documents the site serves: languages/en.json, languages/es.json
Files == {"en", "es"}
Doc(code) ==
    IF code = "en"
    THEN Obj([d \in Names |-> IF d = <<"a">> THEN Leaf(<<"E">>)
                              ELSE Obj([e \in {<<"a">>} |-> Leaf(<<"N", "{", "{", "n", "}", "}">>)])])
    ELSE Obj([d \in Names |-> IF d = <<"a">> THEN Leaf(<<"S">>)
                              ELSE Obj([e \in {<<"a">>} |-> Leaf(<<"P", "{", "{", "n", "}", "}">>)])])

\* the codes switchLanguage is called with: the supported ones and one without a document
SwitchCodes == {"en", "es", "fr"}

\* the page: an element with data-translate, one with data-translate-template
\* and a data-var-n attribute, one with data-translate-inline
Page ==
    << Element(<<"a">>, NoAttr, FALSE, FALSE, NoAttr, <<>>, FALSE, <<>>),
       Element(NoAttr, NoAttr, FALSE, FALSE, <<"b", ".", "a">>,
               <<[name |-> <<"n">>, value |-> <<"S">>]>>, FALSE, <<>>),
       Element(NoAttr, NoAttr, FALSE, FALSE, NoAttr, <<>>, TRUE,
               <<"H", "{", "{", "a", "}", "}">>) >>

\* URLSearchParams.set(name, value): the first pair named name takes the
\* value and the others named name go; without one the pair is appended
searchKept(q, name, value) == q

RECURSIVE DropNamed(_, _)
DropNamed(q, name) ==
    IF q = <<>> THEN <<>>
    ELSE IF Head(q)[1] = name THEN DropNamed(Tail(q), name)
    ELSE <<Head(q)>> \o DropNamed(Tail(q), name)
searchSet(q, name, value) ==
    LET I == {i \in 1..Len(q) : q[i][1] = name}
    IN  IF I = {} THEN Append(q, <<name, value>>)
        ELSE SubSeq(q, 1, Min(I) - 1) \o << <<name, value>> >>
             \o DropNamed(SubSeq(q, Min(I) + 1, Len(q)), name)

\* the environments the page is opened in: no hint of a language, and a hint
\* of es in the fragment, in the query, in the stored preference
NoHint == [hash |-> <<>>, search |-> <<>>, storage |-> Null,
           pathname |-> <<"/">>, language |-> <<"e", "n">>]
StartEnvs ==
    { NoHint,
      [NoHint EXCEPT !.hash = <<"#", "lang=", "e", "s">>],
      [NoHint EXCEPT !.search = << <<"lang", "es">> >>],
      [NoHint EXCEPT !.storage = "es"] }

Pending(P) == P.pc \in {"fetch1", "json1", "fetch2", "json2"}
AllSettled == \A i \in DOMAIN procs : ~Pending(procs[i])

Init ==
    /\ \E e \in StartEnvs :
           /\ hash = e.hash /\ search = e.search /\ storage = e.storage
           /\ pathname = e.pathname /\ language = e.language
    /\ currentLanguage = detectLanguage(hash, search, storage, pathname, language)
    /\ translations = EmptyTable
    /\ docLang = "" /\ selector = "" /\ dom = Page
    /\ procs = <<[kind |-> "init", code |-> Null, first |-> currentLanguage,
                  req |-> currentLanguage, pc |-> "fetch1", failed |-> FALSE,
                  log |-> <<"fetch">>]>>
    /\ overlap = FALSE /\ applied = <<>> /\ nCalls = 0 /\ lastArg = Null
    /\ effects = [fetch |-> 1, scan |-> 0, store |-> 0, push |-> 0]
    /\ args = <<>> /\ ret = <<>> /\ phase = "start"

GuardDropped(langCode, current) == FALSE

\* the guard of switchLanguage: langCode === this.currentLanguage
IsCurrent(langCode, current) == langCode = current

\* switchLanguage(langCode) up to its await: the guard, the assignment of
\* this.currentLanguage, and loadTranslations up to its fetch
SwitchLanguage(langCode) ==
    /\ nCalls < MaxSwitches
    /\ nCalls' = nCalls + 1
    /\ lastArg' = langCode
    /\ IF IsCurrent(langCode, currentLanguage)
       THEN UNCHANGED <<currentLanguage, procs, overlap, effects>>
       ELSE /\ currentLanguage' = langCode
            /\ procs' = Append(procs, [kind |-> "switch", code |-> langCode, first |-> langCode,
                                       req |-> langCode, pc |-> "fetch1", failed |-> FALSE,
                                       log |-> <<"current", "fetch">>])
            /\ overlap' = (overlap \/ ~AllSettled)
            /\ effects' = [effects EXCEPT !.fetch = @ + 1]
    /\ UNCHANGED <<envVars, translations, docLang, selector, dom, applied, callVars>>

PersistCurrent(langCode, current) == current

\* the value switchLanguage stores and puts in the URL: its argument
Persisted(langCode, current) == langCode

FinishPersists(p, cur, tr, failed) ==
    LET isSwitch == procs[p].kind = "switch"
        steps == IF isSwitch THEN <<"loaded", "lang", "dom", "persist", "url">>
                 ELSE <<"loaded", "lang", "dom">>
    IN  /\ docLang' = cur
        /\ selector' = cur
        /\ dom' = autoTranslateElements(tr, dom)
        /\ storage' = IF isSwitch THEN Persisted(procs[p].code, cur) ELSE cur
        /\ search' = IF isSwitch THEN searchSet(search, "lang", Persisted(procs[p].code, cur))
                     ELSE search
        /\ effects' = [effects EXCEPT !.scan = @ + 1, !.store = @ + 1,
                                      !.push = IF isSwitch THEN @ + 1 ELSE @]
        /\ procs' = [procs EXCEPT ![p].pc = "done", ![p].failed = failed,
                                  ![p].log = @ \o steps]

\* what follows `await this.loadTranslations()` in init and in switchLanguage,
\* for process p, with this.currentLanguage = cur and this.translations = tr:
\* updatePageLanguage, updateContent, and for a switch updateLanguageSelectors,
\* localStorage.setItem and history.pushState
Finish(p, cur, tr, failed) ==
    LET isSwitch == procs[p].kind = "switch"
        steps == IF isSwitch THEN <<"loaded", "lang", "dom", "persist", "url">>
                 ELSE <<"loaded", "lang", "dom">>
    IN  /\ docLang' = cur
        /\ selector' = cur
        /\ dom' = autoTranslateElements(tr, dom)
        /\ storage' = IF isSwitch THEN Persisted(procs[p].code, cur) ELSE storage
        /\ search' = IF isSwitch THEN searchSet(search, "lang", Persisted(procs[p].code, cur))
                     ELSE search
        /\ effects' = [effects EXCEPT !.scan = @ + 1,
                                      !.store = IF isSwitch THEN @ + 1 ELSE @,
                                      !.push = IF isSwitch THEN @ + 1 ELSE @]
        /\ procs' = [procs EXCEPT ![p].pc = "done", ![p].failed = failed,
                                  ![p].log = @ \o steps]

\* the number of fetches a process has issued so far
NumFetches(p) == Cardinality({i \in DOMAIN procs[p].log : procs[p].log[i] = "fetch"})

FailRetries(p) ==
    IF procs[p].pc \in {"fetch1", "json1"} /\ currentLanguage = "en"
    THEN /\ Finish(p, currentLanguage, translations, TRUE)
         /\ UNCHANGED <<currentLanguage, translations>>
    ELSE IF NumFetches(p) < 3
    THEN /\ currentLanguage' = "en"
         /\ procs' = [procs EXCEPT ![p].pc = "fetch2", ![p].req = "en",
                                   ![p].failed = TRUE, ![p].log = Append(@, "fetch")]
         /\ effects' = [effects EXCEPT !.fetch = @ + 1]
         /\ UNCHANGED <<search, storage, translations, docLang, selector, dom>>
    ELSE /\ procs' = [procs EXCEPT ![p].pc = "raised"]
         /\ UNCHANGED <<search, storage, engineVars, effects>>

FailKeepsCode(p) ==
    IF procs[p].pc \in {"fetch1", "json1"}
    THEN IF currentLanguage # "en"
         THEN /\ procs' = [procs EXCEPT ![p].pc = "fetch2", ![p].req = "en",
                                        ![p].failed = TRUE, ![p].log = Append(@, "fetch")]
              /\ effects' = [effects EXCEPT !.fetch = @ + 1]
              /\ UNCHANGED <<search, storage, currentLanguage, translations, docLang,
                             selector, dom>>
         ELSE /\ Finish(p, currentLanguage, translations, TRUE)
              /\ UNCHANGED <<currentLanguage, translations>>
    ELSE /\ procs' = [procs EXCEPT ![p].pc = "raised"]
         /\ UNCHANGED <<search, storage, engineVars, effects>>

\* the catch block of loadTranslations, or the rejection of the fetch it issued
Fail(p) ==
    IF procs[p].pc \in {"fetch1", "json1"}
    THEN IF currentLanguage # "en"
         THEN /\ currentLanguage' = "en"
              /\ procs' = [procs EXCEPT ![p].pc = "fetch2", ![p].req = "en",
                                        ![p].failed = TRUE, ![p].log = Append(@, "fetch")]
              /\ effects' = [effects EXCEPT !.fetch = @ + 1]
              /\ UNCHANGED <<search, storage, translations, docLang, selector, dom>>
         ELSE /\ Finish(p, currentLanguage, translations, TRUE)
              /\ UNCHANGED <<currentLanguage, translations>>
    ELSE /\ procs' = [procs EXCEPT ![p].pc = "raised"]
         /\ UNCHANGED <<search, storage, engineVars, effects>>

\* `await fetch(...)` resolves with a response (a 404 response included)
FetchResolves(p) ==
    /\ procs[p].pc \in {"fetch1", "fetch2"}
    /\ procs' = [procs EXCEPT ![p].pc = IF @ = "fetch1" THEN "json1" ELSE "json2"]
    /\ UNCHANGED <<envVars, engineVars, overlap, applied, nCalls, lastArg, effects, callVars>>

\* `await fetch(...)` rejects (network failure)
FetchRejects(p) ==
    /\ procs[p].pc \in {"fetch1", "fetch2"}
    /\ Fail(p)
    /\ UNCHANGED <<hash, pathname, language, overlap, applied, nCalls, lastArg, callVars>>

AdoptIfLatest(p, old, new) == IF p = Len(procs) THEN new ELSE old

\* this.translations = await response.json(): the table the assignment leaves
Adopt(p, old, new) == new

\* `await response.json()` resolves: the response was the document of a served file
JsonResolves(p) ==
    /\ procs[p].pc \in {"json1", "json2"}
    /\ procs[p].req \in Files
    /\ translations' = Adopt(p, translations, Doc(procs[p].req))
    /\ applied' = Append(applied, <<p, procs[p].req>>)
    /\ Finish(p, currentLanguage, translations', procs[p].failed)
    /\ UNCHANGED <<hash, pathname, language, currentLanguage, overlap, nCalls, lastArg, callVars>>

\* `await response.json()` rejects: the response was no JSON document
JsonRejects(p) ==
    /\ procs[p].pc \in {"json1", "json2"}
    /\ Fail(p)
    /\ UNCHANGED <<hash, pathname, language, overlap, applied, nCalls, lastArg, callVars>>

Next ==
    \/ \E langCode \in SwitchCodes : SwitchLanguage(langCode)
    \/ \E p \in DOMAIN procs : FetchResolves(p)
    \/ \E p \in DOMAIN procs : FetchRejects(p)
    \/ \E p \in DOMAIN procs : JsonResolves(p)
    \/ \E p \in DOMAIN procs : JsonRejects(p)

Spec == Init /\ [][Next]_vars

\* the processes a behaviour can hold: the constructor's and one per switch
ProcIds == 1..(MaxSwitches + 1)

\* process p is awaiting a promise (a fetch, or the reading of its body)
PendingAt(p) == p \in DOMAIN procs /\ Pending(procs[p])

\* the promise process p awaits settles: the step that moves p on
Settles(p) == PendingAt(p) /\ procs'[p].pc # procs[p].pc

\* every promise the engine awaits eventually settles: weak fairness of
\* Settles(p), whose enabling condition is PendingAt(p) (a fetch can always
\* resolve or reject, a body can always fail to parse)
Fairness == \A p \in ProcIds : <>[]PendingAt(p) => []<><<Settles(p)>>_vars

\* the engine constructed on a page whose only hint is the stored code "es"
InitFair == Init /\ hash = NoHint.hash /\ search = NoHint.search /\ storage = "es"

SpecFair == InitFair /\ [][Next]_vars /\ Fairness

(***************************************************************************)
(* Claims about the engine                                                 *)
(***************************************************************************)
\* this step is a switchLanguage call whose argument is the current code
NoOpCall == nCalls' = nCalls + 1 /\ lastArg' = currentLanguage

\* C5: switch(code) with code equal to the current code issues no fetch, does
\* no DOM rescan, writes nothing to the persisted preference or the URL, and
\* leaves the current code and the table unchanged, in every reachable state.
C5_SwitchToCurrentIsNoOp ==
    [][NoOpCall => UNCHANGED <<envVars, engineVars, procs, overlap, applied, effects>>]_vars

\* every call so far was a switch to the current code, made while the load
\* of init was pending
C5_Witness ==
    /\ nCalls = MaxSwitches /\ lastArg = currentLanguage
    /\ Len(procs) = 1 /\ Pending(procs[1])

\* C6: when load is invoked for a current code other than en and the fetch or
\* parse for that code fails, load completes without raising, the current
\* code becomes en and the table becomes en's table (loads not overlapping).
C6_FallbackLoadsDefault ==
    ~overlap =>
        \A p \in DOMAIN procs :
            (p = Len(procs) /\ procs[p].first # "en" /\ procs[p].failed /\ ~Pending(procs[p]))
            => /\ procs[p].pc = "done"
               /\ currentLanguage = "en"
               /\ translations = Doc("en")

\* the keys the lookups of the page and of C7 use
ProbeKeys == {<<"a">>, <<"b", ".", "a">>, <<"z">>}

\* C7: whichever fetches fail, load, init and switch complete without raising;
\* when the default's table cannot be loaded on a fresh engine the table
\* stays empty and lookups return their fallback or the raw key.
C7_NoLoadFailureIsFatal ==
    /\ \A p \in DOMAIN procs : procs[p].pc # "raised"
    /\ (applied = <<>> /\ AllSettled) =>
           /\ translations = EmptyTable
           /\ \A key \in ProbeKeys, fallback \in Fallbacks :
                  text(translations, key, fallback) = OrElse(fallback, key)

\* C6 holds of the loads whose fallback request does not fail too.
FallbackLoadsDefaultIfServed ==
    ~overlap =>
        \A p \in DOMAIN procs :
            (p = Len(procs) /\ procs[p].first # "en" /\ procs[p].failed /\ procs[p].pc = "done")
            => currentLanguage = "en" /\ translations = Doc("en")

\* The second half of C7 alone: a fresh engine none of whose loads got a
\* document keeps the empty table, on which lookups fall back.
EmptyTableFallsBack ==
    applied = <<>> =>
        /\ translations = EmptyTable
        /\ \A key \in ProbeKeys, fallback \in Fallbacks :
               text(translations, key, fallback) = OrElse(fallback, key)

IsPrefix(a, b) == Len(a) <= Len(b) /\ SubSeq(b, 1, Len(a)) = a
\* the steps of a switch, in order, with one fetch and with the fallback's second
SwitchSteps == <<"current", "fetch", "loaded", "lang", "dom", "persist", "url">>
SwitchStepsFallback == <<"current", "fetch", "fetch", "loaded", "lang", "dom", "persist", "url">>
\* process p completes in this step
Completes(p) == p \in DOMAIN procs /\ Pending(procs[p]) /\ procs'[p].pc = "done"

\* C8: a switch to a code other than the current one sets the current code,
\* issues and completes the load, re-applies the document language and the
\* DOM, and only then persists the preference and rewrites the URL; when it
\* completes, the persisted preference and the URL's lang parameter are code.
C8_SwitchOrder ==
    /\ [](\A p \in DOMAIN procs : procs[p].kind = "switch" =>
            /\ IsPrefix(procs[p].log, SwitchSteps) \/ IsPrefix(procs[p].log, SwitchStepsFallback)
            /\ procs[p].pc = "done" <=> procs[p].log \in {SwitchSteps, SwitchStepsFallback})
    /\ [][\A p \in DOMAIN procs : procs[p].kind = "switch" =>
            /\ Completes(p) =>
                  /\ storage' = procs[p].code
                  /\ searchGet(search', "lang") = procs[p].code
                  /\ docLang' = currentLanguage'
                  /\ dom' = autoTranslateElements(translations', dom)
            /\ (Pending(procs[p]) /\ Pending(procs'[p]) /\ procs'[p] # procs[p])
               => UNCHANGED <<storage, search, docLang, dom>>]_vars
    /\ [][nCalls' = nCalls + 1 /\ Len(procs') > Len(procs)
            => /\ currentLanguage' = lastArg'
               /\ UNCHANGED <<storage, search, docLang, dom, translations>>]_vars

\* a switch to fr completed through the fallback: the preference and the URL hold fr
C8_Witness ==
    \E p \in DOMAIN procs :
        /\ procs[p].kind = "switch" /\ procs[p].code = "fr"
        /\ procs[p].log = SwitchStepsFallback
        /\ storage = "fr" /\ searchGet(search, "lang") = "fr"

\* the code of the response assigned last
LastApplied == applied[Len(applied)][2]

\* C10: a switch issued while a load is pending is neither queued nor
\* rejected: its fetch is issued at once beside the pending one; each response
\* overwrites the table when it arrives, so the table is that of the response
\* applied last; when no load overlaps another, responses are applied in call
\* order and, all loads having succeeded, the table is the current code's.
C10_OverlappingLoadsRace ==
    /\ [](applied # <<>> => translations = Doc(LastApplied))
    /\ [](~overlap =>
            /\ \A i, j \in DOMAIN applied : i < j => applied[i][1] <= applied[j][1]
            /\ (AllSettled /\ \A p \in DOMAIN procs : procs[p].pc = "done" /\ ~procs[p].failed)
               => LastApplied = currentLanguage)
    /\ [][(nCalls' = nCalls + 1 /\ lastArg' # currentLanguage)
            => /\ Len(procs') = Len(procs) + 1
               /\ procs'[Len(procs')].pc = "fetch1"
               /\ effects'.fetch = effects.fetch + 1
               /\ \A p \in DOMAIN procs : procs'[p] = procs[p]]_vars

\* overlapping loads, every fetch succeeded and every call completed, and the
\* table is that of a code other than the current one
C10_Witness ==
    /\ overlap /\ AllSettled
    /\ \A p \in DOMAIN procs : procs[p].pc = "done" /\ ~procs[p].failed
    /\ LastApplied # currentLanguage
    /\ translations = Doc(LastApplied)

\* the latest call is a completed one and no load overlapped another
LastCompleted == ~overlap /\ AllSettled /\ procs[Len(procs)].pc = "done"

\* C11: with loads serialized, after every completed load or switch the table
\* is the document fetched for the current code (or still the empty table of
\* an engine that never got a document): never the table of another code.
C11_TableMatchesCurrent ==
    LastCompleted =>
        \/ translations = Doc(currentLanguage)
        \/ applied = <<>> /\ translations = EmptyTable

\* C11 holds of the completed calls whose last request got its document.
TableMatchesCurrentIfServed ==
    (LastCompleted /\ applied # <<>> /\ applied[Len(applied)][1] = Len(procs))
        => translations = Doc(currentLanguage)

\* C12: provided every awaited promise settles, a load issues at most two
\* fetches (the requested code, then at most one for "en"), and then ends,
\* returning or raising; once ended it issues nothing more.
C12_LoadTerminates ==
    /\ [](\A p \in DOMAIN procs :
            /\ NumFetches(p) <= 2
            /\ NumFetches(p) = 2 => procs[p].req = "en")
    /\ [][\A p \in DOMAIN procs : ~Pending(procs[p]) => procs'[p] = procs[p]]_vars
    /\ \A p \in ProcIds :
           (p \in DOMAIN procs) ~> (p \in DOMAIN procs /\ ~Pending(procs[p]))

\* a load that fetched twice and returned, and one that fetched twice and raised
C12_Witness ==
    /\ \E p \in DOMAIN procs : NumFetches(p) = 2 /\ procs[p].pc = "done"
    /\ \E p \in DOMAIN procs : NumFetches(p) = 2 /\ procs[p].pc = "raised"

\* C13: the persisted preference is written only by the completing step of a
\* switch that passed the guard (its code differed from the current one), and
\* then with that switch's code; construction and init, every step of a load
\* (its fallback included), the document scan inside them and a switch to the
\* current code leave it as it was.
C13_PreferenceWrittenOnlyBySwitch ==
    /\ [][(storage' # storage \/ effects'.store # effects.store) =>
            \E p \in DOMAIN procs :
                /\ procs[p].kind = "switch" /\ Completes(p)
                /\ storage' = procs[p].code
                /\ effects'.store = effects.store + 1]_vars
    /\ [](effects.store = Cardinality({p \in DOMAIN procs :
                procs[p].kind = "switch" /\ procs[p].pc = "done"}))
    /\ []((\A p \in DOMAIN procs : procs[p].kind = "switch" => procs[p].pc # "done")
            => storage \in {e.storage : e \in StartEnvs})

\* the constructor's load fell back to "en" and completed, and one switch persisted its code
C13_Witness ==
    /\ procs[1].pc = "done" /\ procs[1].failed /\ procs[1].first = "es"
    /\ effects.store = 1 /\ storage = lastArg /\ AllSettled

SwitchedTo(c) ==
    /\ LastCompleted /\ c \in Supported
    /\ procs[Len(procs)].kind = "switch" /\ procs[Len(procs)].code = c
    /\ ~procs[Len(procs)].failed

\* detectLanguage run afresh (a reload) on the URL and the storage as they are
Reloaded == detectLanguage(hash, search, storage, pathname, language)

\* C15: after a switch to a supported code c completed with its table loaded,
\* detectLanguage run afresh on the resulting URL and storage returns c, from
\* every starting URL.
C15_SwitchSurvivesReload == \A c \in SwitchCodes : SwitchedTo(c) => Reloaded = c

\* C15, amended: the same, from every starting URL whose fragment gives
\* detectLanguage no supported code (a fragment that does keeps outranking
\* the query parameter the switch rewrites).
C15_SurvivesReloadWithoutFragmentCode ==
    \A c \in SwitchCodes : (SwitchedTo(c) /\ hashMatch(hash) \notin Supported) => Reloaded = c

\* the page was opened in Spanish through its query parameter or its storage,
\* and a switch to en completed
C15_Witness ==
    /\ SwitchedTo("en") /\ hashMatch(hash) \notin Supported
    /\ procs[1].first = "es" /\ Len(procs) = 2

\* the latest call was a switch (to any code) that completed, no load overlapping another
SwitchCompleted == LastCompleted /\ procs[Len(procs)].kind = "switch"

\* C16: after a switch completes (loads serialized) the persisted preference,
\* the URL's lang parameter and the document language attribute all equal
\* the current code, also when the load fell back to the default code.
C16_RecordsAgreeWithEngine ==
    SwitchCompleted =>
        /\ storage = currentLanguage
        /\ searchGet(search, "lang") = currentLanguage
        /\ docLang = currentLanguage

\* C16, amended: after a switch completes (loads serialized) the document
\* language attribute equals the current code, and the persisted preference
\* and the URL's lang parameter equal the code the switch was called with;
\* that code is the current one unless the load fell back to "en".
C16_RecordsAfterSwitch ==
    SwitchCompleted =>
        LET P == procs[Len(procs)]
        IN  /\ docLang = currentLanguage
            /\ storage = P.code
            /\ searchGet(search, "lang") = P.code
            /\ currentLanguage = IF P.failed THEN "en" ELSE P.code

\* a switch to es completed through the fallback
C16_Witness ==
    /\ SwitchCompleted /\ procs[Len(procs)].code = "es" /\ procs[Len(procs)].failed
    /\ currentLanguage = "en" /\ storage = "es"

(***************************************************************************)
(* SpecDom: the document operations (autoTranslateElements, translateElement *)
(* and translateElements) on a one-element document, interleaved with       *)
(* changes of the table.  phase is "applied" right after a run of           *)
(* autoTranslateElements.                                                   *)
(***************************************************************************)
DomTables == {EmptyTable, Doc("en"), Doc("es")}

\* the pieces of an element's markup: an inline marker, text, a nested
\* data-translate element, a nested data-translate-template element
DomChunks ==
    { <<"{", "{", "a", "}", "}">>, <<"H">>, <<KeyTag, EndTag>>, <<TemplateTag, EndTag>> }
DomMarkups == {Concat(cs) : cs \in SeqsUpTo(DomChunks, MaxPieces)}

\* the key attributes an element carries: none, data-translate (with or
\* without data-translate-fallback), or data-translate-template with data-var-n
Marks ==
    { [translate |-> NoAttr, fallback |-> NoAttr, template |-> NoAttr, variables |-> <<>>],
      [translate |-> <<"a">>, fallback |-> NoAttr, template |-> NoAttr, variables |-> <<>>],
      [translate |-> <<"z">>, fallback |-> <<"F">>, template |-> NoAttr, variables |-> <<>>],
      [translate |-> NoAttr, fallback |-> NoAttr, template |-> <<"b", ".", "a">>,
       variables |-> <<[name |-> <<"n">>, value |-> <<"S">>]>>] }

\* the elements as the page's markup gives them; a text input has no content
DomElements ==
    { e \in { Element(m.translate, m.fallback, h, ti, m.template, m.variables, inl, c) :
                m \in Marks, h \in BOOLEAN, ti \in BOOLEAN, inl \in BOOLEAN, c \in DomMarkups } :
        e.textInput => e.content = <<>> }

\* the arguments translateElement is called with
Configs == [selector : {1, 2}, key : {<<"a">>, <<"z">>}, fallback : {<<"F">>}, useHTML : BOOLEAN]

InitDom ==
    /\ IdleEnv /\ IdleHist
    /\ currentLanguage = "en" /\ docLang = "" /\ selector = ""
    /\ translations \in DomTables
    /\ dom \in {<<e>> : e \in DomElements}
    /\ args = <<>> /\ ret = <<>> /\ phase = "start"

ApplyToDocument ==
    /\ dom' = autoTranslateElements(translations, dom)
    /\ phase' = "applied"
    /\ UNCHANGED <<envVars, histVars, currentLanguage, translations, docLang, selector, args, ret>>

DomChangeTable ==
    /\ \E t \in DomTables : t # translations /\ translations' = t
    /\ phase' = "changed"
    /\ UNCHANGED <<envVars, histVars, currentLanguage, docLang, selector, dom, args, ret>>

TranslateElementCall ==
    /\ \E c \in Configs :
           dom' = translateElement(translations, dom, c.selector, c.key, c.fallback, c.useHTML)
    /\ phase' = "called"
    /\ UNCHANGED <<envVars, histVars, currentLanguage, translations, docLang, selector, args, ret>>

TranslateElementsCall ==
    /\ \E c1 \in Configs : \E c2 \in Configs :
           dom' = translateElements(translations, dom, <<c1, c2>>)
    /\ phase' = "called"
    /\ UNCHANGED <<envVars, histVars, currentLanguage, translations, docLang, selector, args, ret>>

NextDom == ApplyToDocument \/ DomChangeTable \/ TranslateElementCall \/ TranslateElementsCall
SpecDom == InitDom /\ [][NextDom]_vars

\* the text autoTranslateElements resolves for a key-flagged or template-flagged element
Resolved(tr, e) ==
    IF e.translate # NoAttr
    THEN text(tr, e.translate, IF e.fallback = NoAttr THEN <<>> ELSE e.fallback)
    ELSE textWithVars(tr, e.template, e.variables, <<>>)

\* the element shows its text: a key-flagged text input in its placeholder,
\* every other flagged element as its content
Shows(tr, e) ==
    /\ e.translate # NoAttr => (IF e.textInput THEN e.placeholder ELSE e.content) = Resolved(tr, e)
    /\ e.template # NoAttr => e.content = Resolved(tr, e)

\* every element nested in the markup s shows its text
NestedShow(tr, s) ==
    \A k \in DOMAIN s : s[k] \in {KeyTag, TemplateTag} =>
        \E j \in (k + 1)..Len(s) :
            /\ s[j] = EndTag
            /\ SubSeq(s, k + 1, j - 1) = ChildText(tr, s[k])

\* C17: after every run of autoTranslateElements, also one that follows a
\* table change, every key-flagged element shows text(key, fallback) and every
\* template-flagged element its interpolation under the current table, also
\* when it is, or is nested in, an element flagged for inline markers; a
\* second run under the same table changes nothing.
C17_MarkersIndependent ==
    /\ [](phase = "applied" =>
            \A i \in DOMAIN dom :
                Shows(translations, dom[i]) /\ NestedShow(translations, dom[i].content))
    /\ [][(phase = "applied" /\ phase' = "applied") => dom' = dom]_vars

\* C17 holds of the elements that are not nested in an inline-flagged element.
MarkersIndependentOutsideInline ==
    /\ [](phase = "applied" =>
            \A i \in DOMAIN dom :
                /\ Shows(translations, dom[i])
                /\ ~dom[i].inline => NestedShow(translations, dom[i].content))
    /\ [][(phase = "applied" /\ phase' = "applied") => dom' = dom]_vars

\* the write target the claim prescribes for a flagged element: the
\* placeholder of a text input, else the rich content when data-translate-html
\* is present, else the plain text
Target(e) == IF e.textInput THEN "placeholder" ELSE IF e.html THEN "innerHTML" ELSE "textContent"

\* e became f by one write of t to the prescribed target, nothing else touched
WrittenTo(e, f, t) ==
    /\ f.setBy = Target(e)
    /\ IF e.textInput THEN f.placeholder = t /\ f.content = e.content
       ELSE f.content = t /\ f.placeholder = e.placeholder

\* C18: autoTranslateElements writes the resolved text of a key-flagged and of
\* a template-flagged element alike: to the placeholder of a text input, else
\* as rich content when data-translate-html is present, else as plain text;
\* one target is written, the others keep what they held.
C18_WriteTarget ==
    [][phase' = "applied" =>
          \A i \in DOMAIN dom :
              (~dom[i].inline /\ (dom[i].translate # NoAttr \/ dom[i].template # NoAttr))
                  => WrittenTo(dom[i], dom'[i], Resolved(translations, dom[i]))]_vars

\* C18 holds of the key-flagged elements, and of the template-flagged ones
\* that are no text inputs.
WriteTargetUnlessTemplateInput ==
    [][phase' = "applied" =>
          \A i \in DOMAIN dom :
              (/\ ~dom[i].inline
               /\ dom[i].translate # NoAttr \/ (dom[i].template # NoAttr /\ ~dom[i].textInput))
                  => WrittenTo(dom[i], dom'[i], Resolved(translations, dom[i]))]_vars

\* localStorage is untouched by every document operation and table change
PreferenceUntouchedByDocument == [][storage' = storage]_vars

====
